---- MODULE Spec2Model ----
(***************************************************************************)
(* A model of server.py, the MCP server for Early (Timeular) time          *)
(* tracking: the lazily signed-in process-wide HTTP client (_client), the  *)
(* tool handlers that use it, and the pure helpers _to_api_ts and          *)
(* _format_note.                                                           *)
(*                                                                         *)
(* Coroutines run on one asyncio event loop: the code between two awaits   *)
(* that really suspend is one atomic step.  The suspension points are the  *)
(* await of the sign-in POST (line 30), the await that closes the temporary*)
(* client when the "async with" block is left (line 29, __aexit__), and    *)
(* the await of the handler's own API request.                             *)
(*                                                                         *)
(* Strings are sequences of one-character strings, so that len, strip,     *)
(* "in" and replace are computed as Python computes them.                  *)
(***************************************************************************)
EXTENDS Integers, Sequences, FiniteSets, TLC

\* ------------------------------------------------------------------ bounds
\* concurrent handler invocations (coroutines) the host may have in flight
NumProcs == 2
\* handler invocations over the life of the process
MaxCalls == 3
\* distinct bearer tokens the remote sign-in endpoint may hand out
NumTokens == 2

Procs == 1..NumProcs
Tokens == 1..NumTokens

\* Python's None, for a string-valued slot, for _token and for _http
None == "None"
NoToken == 0
NoClient == [id |-> 0, bearer |-> NoToken]

\* values os.environ.get may give for a credential: unset (None), empty, set
EnvValues == {None, "", "k"}

\* the eleven @mcp.tool() handlers.  Each has the shape
\*   client = await _client(); resp = await client.<method>(...);
\*   resp.raise_for_status(); return <shaped resp.json()>
\* and differs from the others in the request it builds and the shaping only.
Tools ==
    { "early_get_activities", "early_get_current_tracking",
      "early_start_tracking", "early_stop_tracking",
      "early_edit_current_tracking", "early_get_time_entries",
      "early_create_time_entry", "early_update_time_entry",
      "early_delete_time_entry", "early_get_tags", "early_create_tag" }

VARIABLES
    environ,     \* os.environ: [EARLY_API_KEY, EARLY_API_SECRET]
    _token,      \* module global _token
    _http,       \* module global _http: NoClient or a client [id, bearer]
    pc,          \* where each handler invocation is suspended
    client,      \* the handler's local "client"
    status,      \* the status class of the API response the handler got
    result,      \* how the invocation ended
    requests,    \* API requests issued by the invocation (sign-in excluded)
    posts,       \* sign-in POSTs issued by the invocation
    signins,     \* POST /developer/sign-in requests issued in total
    envReads,    \* times the credentials were read from os.environ
    nClients,    \* long-lived AsyncClient objects constructed (line 37)
    calls,       \* handler invocations started
    okTokens,    \* tokens returned by successful sign-in responses
    rejected,    \* some sign-in response was a non-success status
    apiFailed,   \* some API response was a non-success status
    cached,      \* the invocation found _http set when it started
    afterReject, \* the invocation started after a rejected sign-in
    ts_in,       \* _to_api_ts: the argument
    ts_out,      \* _to_api_ts: the results of applying it once, twice, ...
    note,        \* _format_note: the argument, << >> for None
    note_out,    \* _format_note: the result for the note as first given
    note_cur,    \* _format_note: the result for the note as it is now
    note_done,   \* _format_note has been applied
    note_swapped \* a side-table of the note has been reordered

sessionVars ==
    << environ, _token, _http, pc, client, status, result, requests,
       posts, signins, envReads, nClients, calls, okTokens, rejected,
       apiFailed, cached, afterReject >>
tsVars == << ts_in, ts_out >>
noteVars == << note, note_out, note_cur, note_done, note_swapped >>
vars == << sessionVars, tsVars, noteVars >>

\* ------------------------------------------------------------ _client()
\* the stored client is never found: every call signs in
HasClientNever(h) == FALSE

\* line 21: if _http is not None
HasClient(h) == h # NoClient

\* Python truthiness of a str | None
Truthy(v) == v # None /\ v # ""

\* "and" for "or": one credential is enough to go on
CredsMissingBoth(e) == ~Truthy(e.EARLY_API_KEY) /\ ~Truthy(e.EARLY_API_SECRET)

\* line 26: if not api_key or not api_secret
CredsMissing(e) == ~Truthy(e.EARLY_API_KEY) \/ ~Truthy(e.EARLY_API_SECRET)

\* lines 37-41: httpx.AsyncClient(headers={"Authorization": f"Bearer {_token}"})
NewClient(n, tok) == [id |-> n, bearer |-> tok]

SessionInit ==
    /\ environ \in [EARLY_API_KEY : EnvValues, EARLY_API_SECRET : EnvValues]
    /\ _token = NoToken
    /\ _http = NoClient
    /\ pc = [p \in Procs |-> "idle"]
    /\ client = [p \in Procs |-> NoClient]
    /\ status = [p \in Procs |-> None]
    /\ result = [p \in Procs |-> None]
    /\ requests = [p \in Procs |-> 0]
    /\ posts = [p \in Procs |-> 0]
    /\ signins = 0
    /\ envReads = 0
    /\ nClients = 0
    /\ calls = 0
    /\ okTokens = {}
    /\ rejected = FALSE
    /\ apiFailed = FALSE
    /\ cached = [p \in Procs |-> FALSE]
    /\ afterReject = [p \in Procs |-> FALSE]

\* a rejected sign-in is remembered: later calls fail without signing in
InvokeLatched(p, t) ==
    /\ pc[p] = "idle"
    /\ calls < MaxCalls
    /\ calls' = calls + 1
    /\ cached' = [cached EXCEPT ![p] = _http # NoClient]
    /\ afterReject' = [afterReject EXCEPT ![p] = rejected]
    /\ IF HasClient(_http)
         THEN /\ client' = [client EXCEPT ![p] = _http]
              /\ requests' = [requests EXCEPT ![p] = 1]
              /\ pc' = [pc EXCEPT ![p] = "request"]
              /\ UNCHANGED << result, posts, signins, envReads >>
         ELSE /\ envReads' = envReads + 1
              /\ IF CredsMissing(environ)
                   THEN /\ result' = [result EXCEPT ![p] = "RuntimeError"]
                        /\ pc' = [pc EXCEPT ![p] = "done"]
                        /\ UNCHANGED << posts, signins >>
                   ELSE IF rejected
                   THEN /\ result' = [result EXCEPT ![p] = "HTTPStatusError(sign-in)"]
                        /\ pc' = [pc EXCEPT ![p] = "done"]
                        /\ UNCHANGED << posts, signins >>
                   ELSE /\ posts' = [posts EXCEPT ![p] = 1]
                        /\ signins' = signins + 1
                        /\ pc' = [pc EXCEPT ![p] = "post_signin"]
                        /\ UNCHANGED result
              /\ UNCHANGED << client, requests >>
    /\ UNCHANGED << environ, _token, _http, status, nClients, okTokens,
                    rejected, apiFailed >>

\* A handler is invoked and runs to its first suspension: it calls _client(),
\* which returns the stored client (line 22), raises RuntimeError (line 27)
\* or issues the sign-in POST and suspends (line 30).  With the stored client
\* the handler goes on to issue its one request and suspends on it.
Invoke(p, t) ==
    /\ pc[p] = "idle"
    /\ calls < MaxCalls
    /\ calls' = calls + 1
    /\ cached' = [cached EXCEPT ![p] = _http # NoClient]
    /\ afterReject' = [afterReject EXCEPT ![p] = rejected]
    /\ IF HasClient(_http)
         THEN /\ client' = [client EXCEPT ![p] = _http]
              /\ requests' = [requests EXCEPT ![p] = 1]
              /\ pc' = [pc EXCEPT ![p] = "request"]
              /\ UNCHANGED << result, posts, signins, envReads >>
         ELSE /\ envReads' = envReads + 1
              /\ IF CredsMissing(environ)
                   THEN /\ result' = [result EXCEPT ![p] = "RuntimeError"]
                        /\ pc' = [pc EXCEPT ![p] = "done"]
                        /\ UNCHANGED << posts, signins >>
                   ELSE /\ posts' = [posts EXCEPT ![p] = 1]
                        /\ signins' = signins + 1
                        /\ pc' = [pc EXCEPT ![p] = "post_signin"]
                        /\ UNCHANGED result
              /\ UNCHANGED << client, requests >>
    /\ UNCHANGED << environ, _token, _http, status, nClients, okTokens,
                    rejected, apiFailed >>

\* The sign-in response arrives (lines 30-35): raise_for_status() raises on a
\* non-success status, otherwise the global _token takes the response's
\* token; either way leaving the "async with" block awaits the close of tmp.
SignInResponse(p, ok, tok) ==
    /\ pc[p] = "post_signin"
    /\ IF ok
         THEN /\ _token' = tok
              /\ okTokens' = okTokens \cup {tok}
              /\ pc' = [pc EXCEPT ![p] = "aexit"]
              /\ UNCHANGED rejected
         ELSE /\ rejected' = TRUE
              /\ pc' = [pc EXCEPT ![p] = "aexit_raise"]
              /\ UNCHANGED << _token, okTokens >>
    /\ UNCHANGED << environ, _http, client, status, result, requests,
                    posts, signins, envReads, nClients, calls, apiFailed,
                    cached, afterReject >>

\* tmp is closed after a successful sign-in (lines 37-42): the long-lived
\* client is built from the global _token as it is now, stored and returned;
\* the handler issues its one request with it and suspends.
CloseTmp(p) ==
    /\ pc[p] = "aexit"
    /\ nClients' = nClients + 1
    /\ _http' = NewClient(nClients + 1, _token)
    /\ client' = [client EXCEPT ![p] = _http']
    /\ requests' = [requests EXCEPT ![p] = requests[p] + 1]
    /\ pc' = [pc EXCEPT ![p] = "request"]
    /\ UNCHANGED << environ, _token, status, result, posts, signins,
                    envReads, calls, okTokens, rejected, apiFailed, cached,
                    afterReject >>

\* tmp is closed while HTTPStatusError propagates: _client() raises it into
\* the handler, which does not catch it.
CloseTmpRaise(p) ==
    /\ pc[p] = "aexit_raise"
    /\ result' = [result EXCEPT ![p] = "HTTPStatusError(sign-in)"]
    /\ pc' = [pc EXCEPT ![p] = "done"]
    /\ UNCHANGED << environ, _token, _http, client, status, requests,
                    posts, signins, envReads, nClients, calls, okTokens,
                    rejected, apiFailed, cached, afterReject >>

\* a failed request is issued once more instead of raising
ApiResponseRetry(p, ok) ==
    /\ pc[p] = "request"
    /\ status' = [status EXCEPT ![p] = IF ok THEN "2xx" ELSE "error"]
    /\ apiFailed' = (apiFailed \/ ~ok)
    /\ IF ok
         THEN /\ result' = [result EXCEPT ![p] = "ok"]
              /\ pc' = [pc EXCEPT ![p] = "done"]
              /\ UNCHANGED requests
         ELSE /\ requests' = [requests EXCEPT ![p] = requests[p] + 1]
              /\ UNCHANGED << result, pc >>
    /\ UNCHANGED << environ, _token, _http, client, posts, signins, envReads,
                    nClients, calls, okTokens, rejected, cached, afterReject >>

\* The API response arrives: resp.raise_for_status() raises on a non-success
\* status, otherwise the handler returns its shaped result.
ApiResponse(p, ok) ==
    /\ pc[p] = "request"
    /\ status' = [status EXCEPT ![p] = IF ok THEN "2xx" ELSE "error"]
    /\ result' = [result EXCEPT ![p] = IF ok THEN "ok" ELSE "HTTPStatusError"]
    /\ apiFailed' = (apiFailed \/ ~ok)
    /\ pc' = [pc EXCEPT ![p] = "done"]
    /\ UNCHANGED << environ, _token, _http, client, requests, posts,
                    signins, envReads, nClients, calls, okTokens, rejected,
                    cached, afterReject >>

\* The host takes the invocation's outcome; the slot is free again.
Return(p) ==
    /\ pc[p] = "done"
    /\ pc' = [pc EXCEPT ![p] = "idle"]
    /\ client' = [client EXCEPT ![p] = NoClient]
    /\ status' = [status EXCEPT ![p] = None]
    /\ result' = [result EXCEPT ![p] = None]
    /\ requests' = [requests EXCEPT ![p] = 0]
    /\ posts' = [posts EXCEPT ![p] = 0]
    /\ cached' = [cached EXCEPT ![p] = FALSE]
    /\ afterReject' = [afterReject EXCEPT ![p] = FALSE]
    /\ UNCHANGED << environ, _token, _http, signins, envReads, nClients,
                    calls, okTokens, rejected, apiFailed >>

\* ------------------------------------------------------------- strings
\* characters str.strip() removes
IsSpace(c) == c \in {" ", "\t", "\n", "\r", "\f"}

RECURSIVE LStrip(_)
LStrip(s) == IF s # << >> /\ IsSpace(Head(s)) THEN LStrip(Tail(s)) ELSE s

RECURSIVE RStrip(_)
RStrip(s) ==
    IF s # << >> /\ IsSpace(s[Len(s)])
      THEN RStrip(SubSeq(s, 1, Len(s) - 1))
      ELSE s

\* str.strip()
Strip(s) == RStrip(LStrip(s))

\* c in s
Contains(s, c) == \E i \in 1..Len(s) : s[i] = c

\* str.replace(old, new) for a non-empty old: the non-overlapping
\* occurrences of old, found left to right, each become new
RECURSIVE Replace(_, _, _)
Replace(s, old, new) ==
    IF Len(s) < Len(old) THEN s
    ELSE IF SubSeq(s, 1, Len(old)) = old
      THEN new \o Replace(SubSeq(s, Len(old) + 1, Len(s)), old, new)
      ELSE << Head(s) >> \o Replace(Tail(s), old, new)

RECURSIVE Concat(_)
Concat(ss) == IF ss = << >> THEN << >> ELSE Head(ss) \o Concat(Tail(ss))

\* the sequences over S of length at most n
SeqsUpTo(S, n) == UNION { [1..k -> S] : k \in 0..n }

\* ---------------------------------------------------------- _to_api_ts
\* line 51: len(dt_str) == 10
DateLen == 10
Midnight == << "T", "0", "0", ":", "0", "0", ":", "0", "0", ".", "0", "0", "0" >>
Millis == << ".", "0", "0", "0" >>

\* the length is tested on the argument as given, before it is stripped
ToApiTsRawLen(s) ==
    LET t == Strip(s)
    IN  IF Len(s) = DateLen THEN t \o Midnight
        ELSE IF ~Contains(t, ".") THEN t \o Millis
        ELSE t

\* the test for "." is missing: ".000" is appended to every non-date
ToApiTsAlwaysAppend(s) ==
    LET t == Strip(s)
    IN  IF Len(t) = DateLen THEN t \o Midnight ELSE t \o Millis

Rule(t) ==
    IF Len(t) = DateLen THEN t \o Midnight
    ELSE IF ~Contains(t, ".") THEN t \o Millis
    ELSE t

\* lines 50-55
ToApiTs(s) == Rule(Strip(s))

\* the arguments: every string of up to MaxTsLen characters of which
\* at most MaxMarks are a space or a "." and the others are digits
MaxTsLen == 11
MaxMarks == 3
TsMarks == {" ", "."}
\* applications of _to_api_ts to its own result
MaxApply == 2

SessionIdle ==
    /\ SessionInit
    /\ environ = [EARLY_API_KEY |-> "k", EARLY_API_SECRET |-> "k"]

TsIdle == ts_in = << >> /\ ts_out = << >>

TsInit ==
    /\ \E n \in 0..MaxTsLen :
          \E P \in { Q \in SUBSET (1..n) : Cardinality(Q) <= MaxMarks } :
              \E f \in [P -> TsMarks] :
                  ts_in = [i \in 1..n |-> IF i \in P THEN f[i] ELSE "0"]
    /\ ts_out = << >>

\* _to_api_ts is applied to the argument, then to its own result
TsApply ==
    /\ Len(ts_out) < MaxApply
    /\ ts_out' = Append(ts_out,
                   ToApiTs(IF ts_out = << >> THEN ts_in ELSE ts_out[Len(ts_out)]))
    /\ UNCHANGED ts_in

\* -------------------------------------------------------- _format_note
\* lines 82 and 86: the placeholder tokens <{{|t|ID|}}> and <{{|m|ID|}}>
TagToken(id) == << "<", "{", "{", "|", "t", "|" >> \o id \o << "|", "}", "}", ">" >>
MentionToken(id) == << "<", "{", "{", "|", "m", "|" >> \o id \o << "|", "}", "}", ">" >>

\* the loop ends after its first tag
ReplaceTagsFirstOnly(text, tags) ==
    IF tags = << >> THEN text
    ELSE IF Head(tags).indices # << >>
      THEN Replace(text, TagToken(Head(tags).id), << "#" >> \o Head(tags).key)
      ELSE text

\* lines 76-82: for tag in tags, in the order of the side-table
RECURSIVE ReplaceTags(_, _)
ReplaceTags(text, tags) ==
    IF tags = << >> THEN text
    ELSE LET tag == Head(tags)
         IN  ReplaceTags(
                 IF tag.indices # << >>
                   THEN Replace(text, TagToken(tag.id), << "#" >> \o tag.key)
                   ELSE text,
                 Tail(tags))

\* lines 83-86: for mention in mentions, in the order of the side-table
RECURSIVE ReplaceMentions(_, _)
ReplaceMentions(text, mentions) ==
    IF mentions = << >> THEN text
    ELSE LET mention == Head(mentions)
         IN  ReplaceMentions(
                 Replace(text, MentionToken(mention.id), << "@" >> \o mention.key),
                 Tail(mentions))

\* lines 68-87; the argument is << >> for None and << n >> for a note n
FormatNote(n) ==
    IF n = << >> THEN << >>
    ELSE Strip(ReplaceMentions(ReplaceTags(n[1].text, n[1].tags), n[1].mentions))

\* the notes: a text of up to MaxPieces pieces, each a placeholder
\* token, a tag token around a tag token, or a space, with up to MaxSide
\* side-table entries in all; a tag key is a plain label or, for nesting,
\* is itself a placeholder token, and one tag id starts with "#"
MaxPieces == 2
MaxSide == 2
TagIds == { << "1" >>, << "2" >>, << "#", "a" >> }
MentionIds == { << "1" >>, << "2" >> }
TagKeys == { << "a" >>, TagToken(<< "2" >>) }
MentionKeys == { << "b" >>, << "c" >> }
TagEntries == [id : TagIds, key : TagKeys, indices : { << >>, << 0 >> }]
MentionEntries == [id : MentionIds, key : MentionKeys]
Pieces ==
    { TagToken(<< "1" >>), TagToken(<< "2" >>), TagToken(TagToken(<< "1" >>)),
      MentionToken(<< "1" >>), MentionToken(<< "2" >>), << " " >> }
Texts == { Concat(ps) : ps \in SeqsUpTo(Pieces, MaxPieces) }
NoteIdle ==
    /\ note = << >>
    /\ note_out = << >>
    /\ note_cur = << >>
    /\ note_done = FALSE
    /\ note_swapped = FALSE

NoteInit ==
    /\ \/ note = << >>
       \/ \E x \in Texts, k \in 0..MaxSide :
             \E ts \in [1..k -> TagEntries],
                ms \in SeqsUpTo(MentionEntries, MaxSide - k) :
                 note = << [text |-> x, tags |-> ts, mentions |-> ms] >>
    /\ note_out = << >>
    /\ note_cur = << >>
    /\ note_done = FALSE
    /\ note_swapped = FALSE

\* the sequence with the entries at i and i + 1 exchanged
Swap(q, i) ==
    [k \in 1..Len(q) |-> IF k = i THEN q[i + 1] ELSE IF k = i + 1 THEN q[i] ELSE q[k]]

\* _format_note is applied to the note as given
NoteFormat ==
    /\ ~note_done
    /\ note_out' = FormatNote(note)
    /\ note_cur' = note_out'
    /\ note_done' = TRUE
    /\ UNCHANGED << note, note_swapped >>

\* two neighbours of the tags side-table change places and _format_note is
\* applied to the note again
SwapTags(i) ==
    /\ note_done
    /\ note # << >>
    /\ i \in 1..(Len(note[1].tags) - 1)
    /\ note' = << [note[1] EXCEPT !.tags = Swap(@, i)] >>
    /\ note_cur' = FormatNote(note')
    /\ note_swapped' = TRUE
    /\ UNCHANGED << note_out, note_done >>

\* the same for the mentions side-table
SwapMentions(i) ==
    /\ note_done
    /\ note # << >>
    /\ i \in 1..(Len(note[1].mentions) - 1)
    /\ note' = << [note[1] EXCEPT !.mentions = Swap(@, i)] >>
    /\ note_cur' = FormatNote(note')
    /\ note_swapped' = TRUE
    /\ UNCHANGED << note_out, note_done >>

Init == SessionInit /\ TsIdle /\ NoteIdle

Next ==
    \/ \E p \in Procs, t \in Tools : Invoke(p, t) /\ UNCHANGED << tsVars, noteVars >>
    \/ \E p \in Procs, ok \in BOOLEAN, tok \in Tokens :
          SignInResponse(p, ok, tok) /\ UNCHANGED << tsVars, noteVars >>
    \/ \E p \in Procs : CloseTmp(p) /\ UNCHANGED << tsVars, noteVars >>
    \/ \E p \in Procs : CloseTmpRaise(p) /\ UNCHANGED << tsVars, noteVars >>
    \/ \E p \in Procs, ok \in BOOLEAN :
          ApiResponse(p, ok) /\ UNCHANGED << tsVars, noteVars >>
    \/ \E p \in Procs : Return(p) /\ UNCHANGED << tsVars, noteVars >>

Spec == Init /\ [][Next]_vars

InitTs == SessionIdle /\ TsInit /\ NoteIdle
NextTs == TsApply /\ UNCHANGED << sessionVars, noteVars >>
SpecTs == InitTs /\ [][NextTs]_vars

InitNote == SessionIdle /\ TsIdle /\ NoteInit
NextNote ==
    \/ NoteFormat /\ UNCHANGED << sessionVars, tsVars >>
    \/ \E i \in 1..MaxSide : SwapTags(i) /\ UNCHANGED << sessionVars, tsVars >>
    \/ \E i \in 1..MaxSide : SwapMentions(i) /\ UNCHANGED << sessionVars, tsVars >>
SpecNote == InitNote /\ [][NextNote]_vars

\* ----------------------------------------------------- session claims
Absent(v) == v = None \/ v = ""
CredsValid == ~Absent(environ.EARLY_API_KEY) /\ ~Absent(environ.EARLY_API_SECRET)
Starts(p) == pc[p] = "idle" /\ pc'[p] # "idle"

\* C1: with valid credentials and a sign-in endpoint that has only answered
\* success, the handler invocations made so far, however they interleaved,
\* have issued exactly one POST /developer/sign-in between them.
SingleFlightSignIn ==
    (CredsValid /\ ~rejected /\ calls >= 1) => signins = 1

\* C2: once _http is set it is never assigned a different client.
SessionStable == [][_http # NoClient => _http' = _http]_vars

\* C3: a call that starts when a client is stored returns that client at
\* once, issues no sign-in and reads no credentials; a failed API response
\* changes neither the stored client nor the token and triggers no sign-in.
ReuseWithoutReauth ==
    [][ /\ \A p \in Procs :
             (Starts(p) /\ _http # NoClient) =>
                 /\ client'[p] = _http
                 /\ pc'[p] = "request"
                 /\ posts'[p] = 0
                 /\ signins' = signins
                 /\ envReads' = envReads
                 /\ _http' = _http
                 /\ _token' = _token
        /\ (apiFailed' /\ ~apiFailed) =>
                 /\ _http' = _http
                 /\ _token' = _token
                 /\ signins' = signins
      ]_vars

ReuseWitness ==
    \E p \in Procs :
        /\ cached[p]
        /\ pc[p] = "request"
        /\ client[p] = _http
        /\ posts[p] = 0
        /\ apiFailed

\* C4: with the API key or the API secret unset or empty, no sign-in and no
\* API request is ever issued, no client is stored, and every call that has
\* ended has ended in the configuration error.
MissingCredentialsFail ==
    (Absent(environ.EARLY_API_KEY) \/ Absent(environ.EARLY_API_SECRET)) =>
        /\ signins = 0
        /\ _http = NoClient
        /\ \A p \in Procs :
              /\ requests[p] = 0
              /\ posts[p] = 0
              /\ pc[p] \in {"idle", "done"}
              /\ pc[p] = "done" => result[p] = "RuntimeError"

MissingCredentialsWitness ==
    /\ environ.EARLY_API_KEY = "k"
    /\ environ.EARLY_API_SECRET = ""
    /\ \E p \in Procs : pc[p] = "done" /\ result[p] = "RuntimeError"

OneRequestNoRetry ==
    \A p \in Procs :
        /\ requests[p] <= 1
        /\ client[p] # NoClient => (requests[p] = 1 /\ pc[p] \in {"request", "done"})
        /\ pc[p] = "request" => (client[p] # NoClient /\ status[p] = None)
        /\ (pc[p] = "done" /\ client[p] # NoClient) => status[p] # None
        /\ status[p] = "error" =>
              (pc[p] = "done" /\ result[p] = "HTTPStatusError" /\ requests[p] = 1)
        /\ result[p] = "ok" => (status[p] = "2xx" /\ requests[p] = 1)

OneRequestWitness ==
    \E p \in Procs :
        pc[p] = "done" /\ status[p] = "error" /\ requests[p] = 1

\* C10: an API request is in flight or answered only when some sign-in has
\* returned success, and a stored client carries a token that a successful
\* sign-in returned and that equals the stored _token.
AuthenticatedRequestsOnly ==
    /\ \A p \in Procs : requests[p] > 0 => okTokens # {}
    /\ _http # NoClient => (_http.bearer \in okTokens /\ _http.bearer = _token)

\* --------------------------------------------------- timestamp claims
\* s[i..j] is s without its leading and trailing whitespace
IsStripOf(s, i, j) ==
    /\ \A k \in 1..Len(s) : (k < i \/ k > j) => IsSpace(s[k])
    /\ i <= j => (~IsSpace(s[i]) /\ ~IsSpace(s[j]))
    /\ i > j => (i = Len(s) + 1 /\ j = Len(s))

HasDot(s) == \E i \in 1..Len(s) : s[i] = "."

\* C7 as stated: the result is s + "T00:00:00.000" when s has exactly 10
\* characters, else s + ".000" when s has no ".", else s, for s as given.
TsRuleVerbatim ==
    ts_out # << >> =>
        ts_out[1] = IF Len(ts_in) = 10 THEN ts_in \o Midnight
                    ELSE IF ~HasDot(ts_in) THEN ts_in \o Millis
                    ELSE ts_in

\* C7 as amended: the rule applies to t, the argument without its leading
\* and trailing whitespace: t + "T00:00:00.000" when t has exactly 10
\* characters, else t + ".000" when t has no ".", else t.
TsRuleStripped ==
    ts_out # << >> =>
        \E i \in 1..(Len(ts_in) + 1), j \in 0..Len(ts_in) :
            LET t == SubSeq(ts_in, i, j)
            IN  /\ IsStripOf(ts_in, i, j)
                /\ ts_out[1] = IF Len(t) = 10 THEN t \o Midnight
                               ELSE IF ~HasDot(t) THEN t \o Millis
                               ELSE t

\* a date of 10 characters behind a space: the length test sees the date
TsRuleWitness ==
    /\ Len(ts_in) = 11
    /\ ts_in[1] = " "
    /\ ts_out # << >>
    /\ Len(ts_out[1]) = 23

\* C8 as stated: applying _to_api_ts to its own result changes nothing.
TsIdempotent == Len(ts_out) >= 2 => ts_out[2] = ts_out[1]

\* C8 as amended: applying _to_api_ts to its own result changes nothing
\* unless that result has exactly 10 characters (the argument, stripped, has
\* 6 characters and no "."), and then it appends "T00:00:00.000".
TsIdempotentUnlessTen ==
    Len(ts_out) >= 2 =>
        /\ Len(ts_out[1]) # 10 => ts_out[2] = ts_out[1]
        /\ Len(ts_out[1]) = 10 => ts_out[2] = ts_out[1] \o Midnight
        /\ Len(ts_out[1]) = 10 <=>
              \E i \in 1..(Len(ts_in) + 1), j \in 0..Len(ts_in) :
                  /\ IsStripOf(ts_in, i, j)
                  /\ j - i + 1 = 6
                  /\ ~HasDot(SubSeq(ts_in, i, j))

\* a date-time without fractional seconds: ".000" is appended once only
TsIdempotentWitness ==
    /\ Len(ts_out) >= 2
    /\ ~HasDot(ts_in)
    /\ Len(ts_in) = 11
    /\ ts_out[1] = ts_in \o Millis
    /\ ts_out[2] = ts_out[1]

\* -------------------------------------------------------- note claims
\* sub occurs in s
Occurs(sub, s) ==
    \E i \in 1..(Len(s) - Len(sub) + 1) : SubSeq(s, i, i + Len(sub) - 1) = sub

Delimiters == { "<", "{", "|", "}", ">" }
CleanId(id) == \A i \in 1..Len(id) : id[i] \notin Delimiters \cup { "#", "@" }
CleanKey(key) == \A i \in 1..Len(key) : key[i] \notin Delimiters
DistinctIds(q) == \A i, j \in 1..Len(q) : q[i].id = q[j].id => i = j

\* the ids of each side-table are pairwise distinct, no id holds a character
\* of the placeholder syntax or a "#" or "@", and no key holds a character
\* of the placeholder syntax
WellFormed(n) ==
    /\ DistinctIds(n.tags)
    /\ DistinctIds(n.mentions)
    /\ \A i \in 1..Len(n.tags) : CleanId(n.tags[i].id) /\ CleanKey(n.tags[i].key)
    /\ \A i \in 1..Len(n.mentions) :
          CleanId(n.mentions[i].id) /\ CleanKey(n.mentions[i].key)

\* C9 as stated: however the tags and the mentions of a note are reordered,
\* _format_note gives the result it gave for the note as first given.
NoteOrderIndependent == note_done => note_cur = note_out

\* C9 as amended: the same for every note whose side-tables are well formed;
\* for such a note a tag with empty indices leaves its token in the result.
NoteOrderIndependentWellFormed ==
    (note_done /\ note # << >> /\ WellFormed(note[1])) =>
        /\ note_cur = note_out
        /\ \A i \in 1..Len(note[1].tags) :
              (note[1].tags[i].indices = << >>
                 /\ Occurs(TagToken(note[1].tags[i].id), note[1].text))
                 => Occurs(TagToken(note[1].tags[i].id), note_cur)

\* two used tags, both tokens in the text, the side-table reordered
NoteOrderWitness ==
    /\ note_swapped
    /\ note # << >>
    /\ WellFormed(note[1])
    /\ Len(note[1].tags) = 2
    /\ \A i \in 1..2 :
          /\ note[1].tags[i].indices # << >>
          /\ Occurs(TagToken(note[1].tags[i].id), note[1].text)
    /\ note_cur = << "#", "a", "#", "a" >>
====
